---- MODULE Spec2Model ----
(***************************************************************************)
(* A model of radix.go: the connWrap connection (Do / Encode / Decode /    *)
(* Close / NetConn), the connLimited view and the goroutines that call     *)
(* them.  The net.Conn under the connWrap and the bufio.ReadWriter over it *)
(* are modelled by what the calls made in radix.go do to them.             *)
(***************************************************************************)
EXTENDS Integers, Sequences, FiniteSets, TLC

\* ------------------------------------------------------------------ bounds
NThreads == 2      \* goroutines sharing the Conn returned by NewConn
MaxDepth == 2      \* nesting depth of Do inside actions
MaxOps   == 3      \* calls of Conn methods issued in one behaviour, in total
BufCap   == 1      \* capacity of the bufio.Writer, in message units
MaxNow   == 2      \* ticks of the clock a timeoutConn is watched for
MaxMsg   == BufCap + 1   \* largest value a Marshaler writes

Threads   == 1..NThreads
Outer     == 0                       \* the *connWrap NewConn returned
HandleIds == 0..(NThreads * MaxDepth)
NoId      == -1
StreamIds == {1}
\* the bufio.ReadWriter values there may be: 1 is the one NewConn makes,
\* radix.go:90; 2 is one more, which nothing in radix.go makes or uses
BrwIds    == {1, 2}

\* ------------------------------------------------------------------ errors
\* "nil"       no error
\* "proto"     an error that is not a net.Error (codec / resp level)
\* "eof"       io.EOF from the stream, not a net.Error
\* "netFault"  a net.Error from a Read/Write on the open stream
\* "netClosed" the net.Error a Read/Write on a closed stream returns
\* "closeErr"  the error Close returns on an already closed stream
\* "usage"     the errors.New(...) values of connLimited
Errors == {"nil", "proto", "eof", "netFault", "netClosed", "closeErr", "usage"}

IsNetError(e) == e \in {"netFault", "netClosed", "closeErr"}

\* what an Action's Run may return on its own account
RunErrors == {"nil", "proto", "netFault"}

VARIABLES
  conn,     \* [StreamIds -> net.Conn state]
  brw,      \* [BrwIds -> bufio.ReadWriter state]
  heap,     \* [HandleIds -> connWrap value, or NoHandle]
  pc,       \* [Threads -> position of the goroutine in its innermost call]
  stack,    \* [Threads -> sequence of frames of the calls in progress]
  ret,      \* the last completed call: which, and what it returned
  ops,      \* number of calls issued so far
  seen      \* what has happened to the connection so far, a subset of
            \* {"explicit", "fault", "proto", "midDo"}: Close was called on
            \* a handle, an Encode/Decode got a net.Error, a Decode got
            \* another error, Close was called on a handle whose Do was
            \* in progress

VARIABLE
  tc        \* a timeoutConn, the clock and the net.Conn it wraps

vars == <<conn, brw, heap, pc, stack, ret, ops, seen, tc>>

NoHandle == [Conn |-> NoId, brw |-> NoId, doL |-> NoId]
NoRet    == [op |-> "none", cw |-> NoId, line |-> 0, err |-> "nil", io |-> "nil",
             afterClose |-> FALSE]

\* ----------------------------------------------------------- the net.Conn
NewStream == [closed |-> FALSE, nRead |-> 0, nWrite |-> 0]

\* net.Conn.Close, promoted to connWrap through the embedded field
ConnClose_Reopen(s) == [s EXCEPT !.closed = ~s.closed]

ConnClose(s) == [s EXCEPT !.closed = TRUE]

ConnCloseErr(s) == IF s.closed THEN "closeErr" ELSE "nil"

\* the error of one Write / Read reaching the stream; fault is the network's
StreamErr(s, fault) == IF s.closed THEN "netClosed" ELSE fault

\* ------------------------------------------------------ the bufio.ReadWriter
NewBrw == [wbuf |-> 0, werr |-> "nil", rbuf |-> 0]

\* bufio.Writer.Flush, radix.go:119
WriterFlush(w, s, fault) ==
  IF w.werr # "nil" THEN [brw |-> w, conn |-> s, err |-> w.werr]
  ELSE IF w.wbuf = 0 THEN [brw |-> w, conn |-> s, err |-> "nil"]
  ELSE LET e == StreamErr(s, fault)
           s2 == [s EXCEPT !.nWrite = s.nWrite + 1] IN
       IF e = "nil"
       THEN [brw |-> [w EXCEPT !.wbuf = 0], conn |-> s2, err |-> "nil"]
       ELSE [brw |-> [w EXCEPT !.werr = e], conn |-> s2, err |-> e]

\* bufio.Writer.Write of k units, as MarshalRESP(cw.brw) drives it, radix.go:109
RECURSIVE WriterWrite(_, _, _, _)
WriterWrite(w, s, k, fault) ==
  IF w.werr # "nil" THEN [brw |-> w, conn |-> s, err |-> w.werr]
  ELSE IF k <= BufCap - w.wbuf
  THEN [brw |-> [w EXCEPT !.wbuf = w.wbuf + k], conn |-> s, err |-> "nil"]
  ELSE IF w.wbuf = 0
  THEN \* larger than the buffer: written straight to the stream
       LET e == StreamErr(s, fault)
           s2 == [s EXCEPT !.nWrite = s.nWrite + 1] IN
       IF e = "nil" THEN [brw |-> w, conn |-> s2, err |-> "nil"]
       ELSE [brw |-> [w EXCEPT !.werr = e], conn |-> s2, err |-> e]
  ELSE \* fill the buffer, flush it, go on with the rest
       LET n == BufCap - w.wbuf
           r == WriterFlush([w EXCEPT !.wbuf = BufCap], s, fault) IN
       WriterWrite(r.brw, r.conn, k - n, fault)

\* MarshalRESP(cw.brw): the codec writes k units and may fail on its own
MarshalRESP(w, s, k, fault, codecErr) ==
  LET r == WriterWrite(w, s, k, fault) IN
  IF r.err = "nil" THEN [r EXCEPT !.err = codecErr] ELSE r

\* UnmarshalRESP(cw.brw.Reader): one message is taken from the read buffer,
\* which is filled from the stream when empty; arrive is what the peer sent
UnmarshalRESP(b, s, arrive, fault, codecErr) ==
  IF b.rbuf > 0
  THEN [brw |-> [b EXCEPT !.rbuf = b.rbuf - 1], conn |-> s, err |-> codecErr]
  ELSE LET e == StreamErr(s, fault)
           s2 == [s EXCEPT !.nRead = s.nRead + 1] IN
       IF e = "nil"
       THEN [brw |-> [b EXCEPT !.rbuf = arrive - 1], conn |-> s2, err |-> codecErr]
       ELSE [brw |-> b, conn |-> s2, err |-> e]

\* ------------------------------------------------------------ the connWrap
\* NewConn, radix.go:87-92: the zero sync.Mutex is unlocked
NewConn == [Conn |-> 1, brw |-> 1, doL |-> 0]

\* the inner connWrap Do builds, radix.go:101-104
InnerHandle_Same(cw) == cw

InnerHandle_OwnBuffers(cw) == [Conn |-> cw.Conn, brw |-> 2, doL |-> 0]

InnerHandle(cw) == [Conn |-> cw.Conn, brw |-> cw.brw, doL |-> 0]

\* where the inner connWrap of thread t at depth d lives
InnerId(t, d) == (t - 1) * MaxDepth + d

\* cw.doL.Lock() returns only when the mutex is free, radix.go:95
LockFree_NoWait(h) == TRUE

LockFree(h) == heap[h].doL = 0

\* the mutex the deferred cw.doL.Unlock() releases, radix.go:96
UnlockTarget_Outer(f) == Outer

UnlockTarget(f) == f.cw

\* the type assertion err.(net.Error) of Encode and Decode, radix.go:111,125
ShouldClose_Never(e) == FALSE

ShouldClose_Always(e) == e # "nil"

ShouldClose(e) == IsNetError(e)

\* what Encode and Decode return: err, whatever cw.Close() gave, radix.go:117,120,128
Returned_CloseResult(e, closeRes) == IF ShouldClose(e) THEN closeRes ELSE e

Returned(e, closeRes) == e

\* Do runs a.Run(inner) once and does not look at what it returned: it does
\* not run it again, returns that very value and leaves the stream alone,
\* radix.go:105
RunAgain_OnError(e, runs) == e # "nil" /\ runs < 2

RunAgain(e, runs) == FALSE

DoResult_Wrapped(e) == IF e = "nil" THEN "nil" ELSE "proto"

DoResult(e) == e

AfterRun_CloseOnFault(s, e) == IF IsNetError(e) THEN ConnClose(s) ELSE s

AfterRun(s, e) == s

\* the Unlock is deferred: it runs whatever a.Run returned, radix.go:96
Unlocks_OnSuccess(e) == e = "nil"

Unlocks(e) == TRUE

\* Encode goes on to Flush when MarshalRESP gave no error, radix.go:116-119
FlushAfter_Always(merr) == TRUE

FlushAfter(merr) == merr = "nil"

\* Encode, Decode and Close begin without cw.doL.Lock(): whatever the state
\* of the mutex of handle h, they go ahead, radix.go:108-109,123-124,75-79
EntryGuard_CodecLocked(op, h) == op \in {"Encode", "Decode"} => LockFree(h)

EntryGuard_CloseLocked(op, h) == op = "Close" => LockFree(h)

EntryGuard(op, h) == TRUE

\* the connLimited methods, radix.go:63-73: what they return, and what they
\* do to the stream they wrap
LimitedErr(op) == "usage"

LimitedEffect_Embedded(op, s) == IF op = "NetConn.Close" THEN ConnClose(s) ELSE s

LimitedEffect(op, s) == s

\* ------------------------------------------------------------------ frames
\* a call in progress: Do, or an Encode between MarshalRESP and Flush
\* err is the err variable of an Encode, runs the number of times a Do has
\* entered a.Run
Frame(op, cw, ac) ==
  [op |-> op, cw |-> cw, inner |-> NoId, afterClose |-> ac, err |-> "nil",
   runs |-> 0]

Top(t)   == stack[t][Len(stack[t])]
Depth(t) == Cardinality({i \in 1..Len(stack[t]) : stack[t][i].op = "Do"})

\* the handle a goroutine holds: the Conn from NewConn, or inside an action
\* the Conn that Run was given
Held(t) == IF stack[t] = <<>> THEN Outer ELSE Top(t).inner

CanCall(t) == pc[t] \in {"idle", "run"} /\ ops < MaxOps

Resume(stk) == IF stk = <<>> THEN "idle" ELSE "run"

Pop(t) == SubSeq(stack[t], 1, Len(stack[t]) - 1)

SetTop(t, f) == [stack EXCEPT ![t] = Append(Pop(t), f)]

IsClosed(h) == conn[heap[h].Conn].closed

\* a call that does not return at once begins: its frame is pushed
Call(t, op, where) ==
  /\ stack' = [stack EXCEPT ![t] = Append(@, Frame(op, Held(t), IsClosed(Held(t))))]
  /\ pc' = [pc EXCEPT ![t] = where]

\* a call returns e at a line of radix.go; io is what its underlying
\* operation gave, ac whether the stream was closed when the call was made
Result(op, cw, line, e, io, ac) ==
  [op |-> op, cw |-> cw, line |-> line, err |-> e, io |-> io, afterClose |-> ac]

\* the innermost call in progress of t returns
Return(t, line, e, io) ==
  /\ ret' = Result(Top(t).op, Top(t).cw, line, e, io, Top(t).afterClose)
  /\ stack' = [stack EXCEPT ![t] = Pop(t)]
  /\ pc' = [pc EXCEPT ![t] = Resume(Pop(t))]

\* -------------------------------------------------------------------- Init
InitConn ==
  /\ conn = [c \in StreamIds |-> NewStream]
  /\ brw = [b \in BrwIds |-> NewBrw]
  /\ heap = [h \in HandleIds |-> IF h = Outer THEN NewConn ELSE NoHandle]
  /\ pc = [t \in Threads |-> "idle"]
  /\ stack = [t \in Threads |-> <<>>]
  /\ ret = NoRet
  /\ ops = 0
  /\ seen = {}

\* ------------------------------------------------------------ timeoutConn
\* the durations DialTimeout is given, in ticks
Timeouts == {-1, 0, 1, 2}

NoDeadline == -1

\* &timeoutConn{Conn: c, timeout: timeout}, radix.go:179, over a net.Conn
\* with no deadline; pos is where each goroutine is in Read or Write, set
\* what the setDeadline of its call in progress did
TimeoutConn(d) ==
  [timeout |-> d, now |-> 0, deadline |-> NoDeadline,
   pos |-> [g \in Threads |-> "idle"],
   set |-> [g \in Threads |-> <<>>],
   res |-> "nil"]

\* if tc.timeout > 0, radix.go:157
DeadlineApplies_NonNegative(d) == d >= 0

DeadlineApplies_Never(d) == FALSE

DeadlineApplies(d) == d > 0

\* time.Now().Add(tc.timeout), radix.go:158
DeadlineAt(now, d) == now + d

\* the connection as NewConn leaves it, over a net.Conn without timeoutConn
Init == InitConn /\ tc = TimeoutConn(0)

\* DialTimeout(network, addr, timeout), radix.go:174-180
TimeoutInit == InitConn /\ \E d \in Timeouts : tc = TimeoutConn(d)

\* time passes
Tick ==
  /\ tc.now < MaxNow
  /\ tc' = [tc EXCEPT !.now = @ + 1]
  /\ UNCHANGED <<conn, brw, heap, pc, stack, ret, ops, seen>>

\* Read or Write is called on the timeoutConn, radix.go:162,167
TcCall(g, op) ==
  /\ tc.pos[g] = "idle"
  /\ tc' = [tc EXCEPT !.pos[g] = op, !.set[g] = <<>>]
  /\ UNCHANGED <<conn, brw, heap, pc, stack, ret, ops, seen>>

\* tc.setDeadline(), radix.go:156-160, 163, 168
TcSetDeadline(g) ==
  /\ tc.pos[g] \in {"read", "write"}
  /\ tc' = IF DeadlineApplies(tc.timeout)
           THEN [tc EXCEPT !.deadline = DeadlineAt(tc.now, tc.timeout),
                           !.set[g] = <<tc.now, DeadlineAt(tc.now, tc.timeout)>>,
                           !.pos[g] = @ \o "_io"]
           ELSE [tc EXCEPT !.pos[g] = @ \o "_io"]
  /\ UNCHANGED <<conn, brw, heap, pc, stack, ret, ops, seen>>

\* return tc.Conn.Read(b) / tc.Conn.Write(b), radix.go:164,169: the net.Conn
\* gives up when its deadline has passed
TcIO(g) ==
  /\ tc.pos[g] \in {"read_io", "write_io"}
  /\ tc' = [tc EXCEPT !.pos[g] = "idle",
                      !.res = IF tc.deadline # NoDeadline /\ tc.now >= tc.deadline
                              THEN "netFault" ELSE "nil"]
  /\ UNCHANGED <<conn, brw, heap, pc, stack, ret, ops, seen>>

TimeoutNext ==
  \/ Tick
  \/ \E g \in Threads :
        \/ \E op \in {"read", "write"} : TcCall(g, op)
        \/ TcSetDeadline(g)
        \/ TcIO(g)

TimeoutSpec == TimeoutInit /\ [][TimeoutNext]_vars

\* ---------------------------------------------------------------------- Do
\* Do is called and reaches cw.doL.Lock(), radix.go:94-95
DoCall(t) ==
  /\ CanCall(t)
  /\ Depth(t) < MaxDepth
  /\ Call(t, "Do", "do_lock")
  /\ ops' = ops + 1
  /\ UNCHANGED <<conn, brw, heap, ret, seen, tc>>

\* Lock returns, inner is built, a.Run(inner) is entered, radix.go:95-105
DoLock(t) ==
  /\ pc[t] = "do_lock"
  /\ LockFree(Top(t).cw)
  /\ LET cw == Top(t).cw
         id == InnerId(t, Depth(t))
         locked == [heap EXCEPT ![cw].doL = t] IN
     /\ heap' = [locked EXCEPT ![id] = InnerHandle(locked[cw])]
     /\ stack' = SetTop(t, [Top(t) EXCEPT !.inner = id, !.runs = 1])
  /\ pc' = [pc EXCEPT ![t] = "run"]
  /\ UNCHANGED <<conn, brw, ret, ops, seen, tc>>

\* a.Run(inner) returns e, the deferred Unlock runs, Do returns e,
\* radix.go:96,105
DoReturn(t, e) ==
  /\ pc[t] = "run"
  /\ LET c == heap[Top(t).cw].Conn IN
     conn' = [conn EXCEPT ![c] = AfterRun(conn[c], e)]
  /\ IF RunAgain(e, Top(t).runs)
     THEN /\ stack' = SetTop(t, [Top(t) EXCEPT !.runs = @ + 1])
          /\ UNCHANGED <<heap, pc, ret>>
     ELSE /\ heap' = [heap EXCEPT
                       ![UnlockTarget(Top(t))].doL = IF Unlocks(e) THEN 0 ELSE @,
                       ![Top(t).inner] = NoHandle]
          /\ Return(t, 105, DoResult(e), e)
  /\ UNCHANGED <<brw, ops, seen, tc>>

\* ------------------------------------------------------ Encode and Decode
\* what the network and the codec may make of one call
WriteFaults == {"nil", "netFault"}
ReadFaults  == {"nil", "netFault", "eof"}
CodecErrs   == {"nil", "proto"}

MarshalOutcomes(w, s) ==
  {MarshalRESP(w, s, k, f, c) : k \in 1..MaxMsg, f \in WriteFaults, c \in CodecErrs}

FlushOutcomes(w, s) == {WriterFlush(w, s, f) : f \in WriteFaults}

UnmarshalOutcomes(b, s) ==
  {UnmarshalRESP(b, s, a, f, c) : a \in 1..MaxMsg, f \in ReadFaults, c \in CodecErrs}

\* the deferred func of Encode, and lines 125-127 of Decode: cw.Close()
\* when err is a net.Error
CloseOnFault(s, e) == IF ShouldClose(e) THEN ConnClose(s) ELSE s

\* the record that an Encode or Decode saw a net.Error
CloserOnFault(e) == IF IsNetError(e) THEN {"fault"} ELSE {}

CloseResult(s, e) == IF ShouldClose(e) THEN ConnCloseErr(s) ELSE "nil"

\* two goroutines inside Encode on one bufio.Writer race on its fields:
\* the count of buffered bytes may come out as any value
WriterRace(t, b) ==
  \E u \in Threads \ {t} :
     /\ pc[u] = "enc_flush"
     /\ heap[Top(u).cw].brw = b

WriterOutcomes(t, b, w) ==
  IF WriterRace(t, b) THEN {[w EXCEPT !.wbuf = n] : n \in 0..BufCap} ELSE {w}

\* Encode up to its first return: err := m.MarshalRESP(cw.brw); when err is
\* not nil the deferred func runs and Encode returns, radix.go:108-118
Encode(t) ==
  /\ CanCall(t)
  /\ EntryGuard("Encode", Held(t))
  /\ LET cw == heap[Held(t)] IN
     \E r \in MarshalOutcomes(brw[cw.brw], conn[cw.Conn]) :
     /\ \E w \in WriterOutcomes(t, cw.brw, r.brw) :
           brw' = [brw EXCEPT ![cw.brw] = w]
     /\ conn' = [conn EXCEPT ![cw.Conn] = CloseOnFault(r.conn, r.err)]
     /\ seen' = seen \cup CloserOnFault(r.err)
     /\ IF ~FlushAfter(r.err)
        THEN /\ ret' = Result("Encode", Held(t), 117,
                              Returned(r.err, CloseResult(r.conn, r.err)),
                              r.err, IsClosed(Held(t)))
             /\ UNCHANGED <<pc, stack>>
        ELSE /\ stack' = [stack EXCEPT ![t] =
                  Append(@, [Frame("Encode", Held(t), IsClosed(Held(t)))
                               EXCEPT !.err = r.err])]
             /\ pc' = [pc EXCEPT ![t] = "enc_flush"]
             /\ UNCHANGED ret
  /\ ops' = ops + 1
  /\ UNCHANGED <<heap, tc>>

\* err = cw.brw.Flush(); return err, then the deferred func, radix.go:110-120
EncodeFlush(t) ==
  /\ pc[t] = "enc_flush"
  /\ LET cw == heap[Top(t).cw] IN
     \E r \in FlushOutcomes(brw[cw.brw], conn[cw.Conn]) :
     /\ \E w \in WriterOutcomes(t, cw.brw, r.brw) :
           brw' = [brw EXCEPT ![cw.brw] = w]
     /\ conn' = [conn EXCEPT ![cw.Conn] = CloseOnFault(r.conn, r.err)]
     /\ seen' = seen \cup CloserOnFault(r.err)
     /\ Return(t, 120, Returned(r.err, CloseResult(r.conn, r.err)), r.err)
  /\ UNCHANGED <<heap, ops, tc>>

\* Decode, radix.go:123-129
Decode(t) ==
  /\ CanCall(t)
  /\ EntryGuard("Decode", Held(t))
  /\ LET cw == heap[Held(t)] IN
     \E r \in UnmarshalOutcomes(brw[cw.brw], conn[cw.Conn]) :
     /\ brw' = [brw EXCEPT ![cw.brw] = r.brw]
     /\ conn' = [conn EXCEPT ![cw.Conn] = CloseOnFault(r.conn, r.err)]
     /\ seen' = seen \cup CloserOnFault(r.err)
                      \cup (IF r.err \in {"proto", "eof"} THEN {"proto"} ELSE {})
     /\ ret' = Result("Decode", Held(t), 128, Returned(r.err, CloseResult(r.conn, r.err)),
                      r.err, IsClosed(Held(t)))
  /\ ops' = ops + 1
  /\ UNCHANGED <<heap, pc, stack, tc>>

\* ------------------------------------------------------------------- Close
\* connWrap.Close is net.Conn.Close of the embedded stream, radix.go:75-79
Close(t) ==
  /\ CanCall(t)
  /\ EntryGuard("Close", Held(t))
  /\ LET c == heap[Held(t)].Conn IN
     /\ conn' = [conn EXCEPT ![c] = ConnClose(conn[c])]
     /\ ret' = Result("Close", Held(t), 0, ConnCloseErr(conn[c]), "nil",
                      conn[c].closed)
  /\ seen' = seen \cup {"explicit"}
                  \cup (IF heap[Held(t)].doL # 0 THEN {"midDo"} ELSE {})
  /\ ops' = ops + 1
  /\ UNCHANGED <<brw, heap, pc, stack, tc>>

\* ------------------------------------------------- NetConn() / connLimited
LimitedOps == {"NetConn.Read", "NetConn.Write", "NetConn.Close"}

\* cw.NetConn().Read / Write / Close, radix.go:131-133 and 63-73
Limited(t, op) ==
  /\ CanCall(t)
  /\ LET c == heap[Held(t)].Conn IN
     /\ conn' = [conn EXCEPT ![c] = LimitedEffect(op, conn[c])]
     /\ ret' = Result(op, Held(t), 0, LimitedErr(op), "nil", conn[c].closed)
  /\ ops' = ops + 1
  /\ UNCHANGED <<brw, heap, pc, stack, seen, tc>>

\* -------------------------------------------------------------------- Next
Next ==
  \E t \in Threads :
     \/ DoCall(t)
     \/ DoLock(t)
     \/ \E e \in RunErrors : DoReturn(t, e)
     \/ Encode(t)
     \/ EncodeFlush(t)
     \/ Decode(t)
     \/ Close(t)
     \/ \E op \in LimitedOps : Limited(t, op)

Spec == Init /\ [][Next]_vars

\* a goroutine that is inside a call and can go on does go on: it takes a
\* free mutex, finishes its Encode, and its action returns
Progress(t) ==
  \/ DoLock(t)
  \/ EncodeFlush(t)
  \/ \E e \in RunErrors : DoReturn(t, e)

FairSpec == Spec /\ \A t \in Threads : WF_vars(Progress(t))

\* an action body terminates: an Encode in it finishes, its Run returns
BodyEnds(t) ==
  \/ EncodeFlush(t)
  \/ \E e \in RunErrors : DoReturn(t, e)

\* a fair mutex: a goroutine in Lock that finds the mutex free again and
\* again gets it, radix.go:95
FairLockSpec ==
  Spec /\ \A t \in Threads : WF_vars(BodyEnds(t)) /\ SF_vars(DoLock(t))

\* ================================================================ claims
TheConn == conn[heap[Outer].Conn]

\* the action bodies entered through Do on handle h and not yet left
Bodies(h) ==
  {b \in Threads \X (1..(MaxDepth + 1)) :
     /\ b[2] <= Len(stack[b[1]])
     /\ stack[b[1]][b[2]].op = "Do"
     /\ stack[b[1]][b[2]].cw = h
     /\ stack[b[1]][b[2]].inner # NoId}

Counter(h) == Cardinality(Bodies(h))

\* t is inside the body of an action it started with Do on the outer handle
InTopLevelBody(t) ==
  /\ stack[t] # <<>>
  /\ stack[t][1].op = "Do"
  /\ stack[t][1].inner # NoId

\* t is inside the body of an action started by a nested Do
InNestedBody(t) ==
  \E i \in 2..Len(stack[t]) : stack[t][i].op = "Do" /\ stack[t][i].inner # NoId

\* t has called Do from inside an action and has not yet got the mutex
NestedDoPending(t) == pc[t] = "do_lock" /\ Len(stack[t]) >= 2

\* C1: of the action bodies entered through Do on one handle, at most one
\* is executing at any time (the counter around the body never exceeds 1).
C1_OneBodyAtATime == \A h \in HandleIds : Counter(h) <= 1

\* two goroutines contend: one is in its body, the other waits in Lock
C1_Witness ==
  \E t, u \in Threads :
     /\ t # u
     /\ pc[t] = "run" /\ Len(stack[t]) = 1
     /\ pc[u] = "do_lock" /\ Top(u).cw = Outer
     /\ Counter(Outer) = 1

\* some goroutine is inside an action it started with Do on the outer handle
Busy == \E t \in Threads : InTopLevelBody(t)

\* C2: a Do called by an action on the Conn it was given never waits for a
\* mutex (the mutex it locks is free), and whenever an action started on the
\* outer handle is running, nested calls and all, its Do eventually returns.
C2_NestedDoCompletes ==
  /\ [](\A t \in Threads : NestedDoPending(t) => heap[Top(t).cw].doL = 0)
  /\ (Busy ~> ~Busy)

\* an action nested to the full depth is running
C2_Witness ==
  \E t \in Threads : pc[t] = "run" /\ Depth(t) = MaxDepth /\ Len(stack[t]) = MaxDepth

\* C3: while a goroutine is inside an action it started on the outer handle,
\* at any nesting depth, it holds the outer mutex and no other goroutine is
\* inside any action body.
C3_NestedExcludesSiblings ==
  \A t \in Threads :
     InTopLevelBody(t) =>
        /\ heap[Outer].doL = t
        /\ \A u \in Threads \ {t} : ~InTopLevelBody(u) /\ ~InNestedBody(u)

\* a nested body runs while a sibling top-level Do waits in Lock
C3_Witness ==
  \E t, u \in Threads :
     /\ t # u
     /\ InNestedBody(t) /\ pc[t] = "run"
     /\ pc[u] = "do_lock" /\ Top(u).cw = Outer

\* C4: when Encode or Decode has returned a net.Error, Close has been
\* called on the stream.
C4_FaultCloses ==
  (ret.op \in {"Encode", "Decode"} /\ IsNetError(ret.err)) => TheConn.closed

\* an Encode whose Flush met a fault on the open stream has returned
C4_Witness ==
  /\ ret.op = "Encode" /\ ret.line = 120 /\ ret.err = "netFault"
  /\ ~ret.afterClose
  /\ TheConn.closed /\ seen = {"fault"}

\* C5 as claimed: a Do, Encode or Decode called when the connection was
\* already closed returns an error.
C5_AllCallsFailAfterClose ==
  (ret.op \in {"Do", "Encode", "Decode"} /\ ret.afterClose) => ret.err # "nil"

\* C6: the stream is closed only if Close was called on a handle or an
\* Encode/Decode got a net.Error.
C6_OnlyFaultsClose ==
  TheConn.closed => (seen \cap {"explicit", "fault"}) # {}

\* a Decode has succeeded on a connection on which a Decode had failed with
\* an error that is not a net.Error
C6_Witness ==
  /\ "proto" \in seen
  /\ ret.op = "Decode" /\ ret.err = "nil"
  /\ ~TheConn.closed

\* C7: an Encode or Decode whose operation gave a net.Error returns that
\* very error, whatever the automatic Close returned.
C7_OriginalFaultReturned ==
  (ret.op \in {"Encode", "Decode"} /\ IsNetError(ret.io)) => ret.err = ret.io

\* the automatic Close failed (the stream was closed already) and the call
\* still returned the fault of its own Write
C7_Witness ==
  /\ ret.op = "Encode" /\ ret.afterClose
  /\ ret.io = "netClosed" /\ ret.err = "netClosed"

\* a step in which Close is called on a handle
ExplicitCloseStep == ops' = ops + 1 /\ pc' = pc /\ ret'.op = "Close"

C9_ClosedDoNeverBlocks ==
  \A t \in Threads :
     (pc[t] = "do_lock" /\ Top(t).afterClose) => heap[Top(t).cw].doL = 0

\* a step in which Read, Write or Close is called on the value of NetConn()
LimitedStep == ops' = ops + 1 /\ pc' = pc /\ ret'.op \in LimitedOps

\* C10: Read, Write and Close on the value of NetConn() return the usage
\* error and leave the stream (open or closed, reads, writes) and the
\* buffers as they were.
C10_LimitedViewInert ==
  [][LimitedStep => (ret'.err = "usage" /\ conn' = conn /\ brw' = brw)]_vars

\* Close on the value of NetConn() has returned and the stream is open
C10_Witness ==
  /\ ret.op = "NetConn.Close" /\ ret.err = "usage"
  /\ ~TheConn.closed

\* C11: when a goroutine is at the Read or Write of the wrapped net.Conn, its
\* call has just set the deadline to the time of that setting plus the
\* duration if the duration is positive; with a zero or negative duration no
\* call sets anything and the net.Conn never has a deadline.
C11_DeadlineBeforeIO ==
  /\ \A g \in Threads :
        tc.pos[g] \in {"read_io", "write_io"} =>
           IF tc.timeout > 0
           THEN tc.set[g] # <<>> /\ tc.set[g][2] = tc.set[g][1] + tc.timeout
           ELSE tc.set[g] = <<>>
  /\ tc.timeout <= 0 => tc.deadline = NoDeadline
  /\ \A g \in Threads : tc.set[g] # <<>> => tc.deadline >= tc.set[g][2]

\* with a positive duration a Write is about to reach the net.Conn after the
\* clock has moved, the deadline set by its own call
C11_Witness ==
  \E g \in Threads :
     /\ tc.timeout > 0
     /\ tc.pos[g] = "write_io"
     /\ tc.set[g] # <<>> /\ tc.set[g][1] > 0
     /\ tc.deadline = tc.set[g][1] + tc.timeout

\* the Do calls of t that have entered their action
DoFrames(t) ==
  {i \in 1..Len(stack[t]) : stack[t][i].op = "Do" /\ stack[t][i].inner # NoId}

\* C12: a Do that is inside its action has entered Run once, never twice, and
\* a Do that has returned returned the very value its Run returned.
C12_RunOnceVerbatim ==
  /\ \A t \in Threads : \A i \in DoFrames(t) : stack[t][i].runs = 1
  /\ ret.op = "Do" => (ret.line = 105 /\ ret.err = ret.io /\ ret.err \in RunErrors)

\* a Do whose action failed with an error of its own has returned it, and the
\* goroutine is out of every call
C12_Witness ==
  /\ ret.op = "Do" /\ ret.cw = Outer
  /\ ret.err = "proto" /\ ret.io = "proto"
  /\ \A t \in Threads : stack[t] = <<>>

\* C13: an Encode is at its Flush only when MarshalRESP returned no error, and
\* an Encode whose MarshalRESP returned an error has returned that error from
\* line 117 without reaching Flush; every Encode that returns without an
\* error of MarshalRESP returns from after the Flush, line 120.
C13_FlushIffMarshalled ==
  /\ \A t \in Threads : pc[t] = "enc_flush" => (Top(t).op = "Encode" /\ Top(t).err = "nil")
  /\ (ret.op = "Encode" /\ ret.line = 117) => ret.io # "nil"
  /\ (ret.op = "Encode" /\ ret.line = 120) => ret.io \in {"nil", "netFault", "netClosed"}
  /\ ret.op = "Encode" => ret.line \in {117, 120}

\* an Encode whose serialization failed with an error of the codec has
\* returned, the stream open and nothing written to it
C13_Witness ==
  /\ ret.op = "Encode" /\ ret.line = 117 /\ ret.err = "proto"
  /\ ~TheConn.closed /\ TheConn.nWrite = 0

\* a step of an Encode or a Decode: the call up to its Flush or its return,
\* or the Flush and the return
CodecStep ==
  \/ ops' = ops + 1 /\ pc' = pc /\ ret'.op \in {"Encode", "Decode"}
  \/ \E t \in Threads : (pc'[t] = "enc_flush") # (pc[t] = "enc_flush")

\* a goroutine is inside the action of a Do on the outer handle
DoInFlight == \E t \in Threads : heap[Outer].doL = t /\ InTopLevelBody(t)

\* C14: no step of an Encode or a Decode changes a mutex, and while a Do on
\* the outer handle is in flight a goroutine outside every call can begin an
\* Encode and a Decode on the outer handle.
C14_CodecNotLocked ==
  /\ [][CodecStep => heap' = heap]_vars
  /\ [](\A u \in Threads :
          (DoInFlight /\ pc[u] = "idle" /\ ops < MaxOps) =>
             (ENABLED Encode(u) /\ ENABLED Decode(u)))

\* an Encode on the outer handle and an Encode of the action in flight are
\* both between serializing and Flush, on the one bufio.Writer
C14_Witness ==
  \E t, u \in Threads :
     /\ t # u
     /\ heap[Outer].doL = t
     /\ pc[t] = "enc_flush" /\ Len(stack[t]) = 2 /\ Top(t).cw # Outer
     /\ pc[u] = "enc_flush" /\ Len(stack[u]) = 1 /\ Top(u).cw = Outer
     /\ heap[Top(t).cw].brw = heap[Outer].brw

\* C15 as claimed: inner handles carry no lock, the outer handle's mutex is
\* the only one of the connection: no mutex of an inner handle is ever locked.
C15_OneLockPerConnection ==
  \A h \in HandleIds \ {Outer} : heap[h] # NoHandle => heap[h].doL = 0

\* C15: every inner handle is a connWrap other than the one Do was called
\* on, with a mutex of its own, made unlocked: that mutex is locked exactly
\* while the goroutine of the action is inside the action of a Do it called
\* on that inner handle, and a Do the action calls on its inner handle finds
\* it free.
C15_InnerOwnLock ==
  \A t \in Threads :
     /\ \A i \in DoFrames(t) :
           LET h == stack[t][i].inner IN
           /\ h # stack[t][i].cw
           /\ heap[h] # NoHandle
           /\ heap[h].doL = IF \E j \in DoFrames(t) : stack[t][j].cw = h THEN t ELSE 0
     /\ NestedDoPending(t) => LockFree(Top(t).cw)

\* an action has called Do on its inner handle: that handle's mutex and the
\* outer one are both locked, the innermost handle's is free
C15_Witness ==
  \E t \in Threads :
     /\ pc[t] = "run" /\ Len(stack[t]) = 2
     /\ heap[Outer].doL = t
     /\ stack[t][2].cw = stack[t][1].inner
     /\ heap[stack[t][1].inner].doL = t
     /\ heap[stack[t][2].inner].doL = 0

\* C16: every handle there is, at every depth, has the stream and the
\* bufio.ReadWriter of the outer handle, so that no other buffer is ever
\* written or read; and when Close has been called on an inner handle, or an
\* Encode or Decode on an inner handle has returned a net.Error, the stream of
\* the outer handle is closed.
C16_InnerSharesTransport ==
  /\ \A h \in HandleIds :
        heap[h] # NoHandle =>
           (heap[h].Conn = heap[Outer].Conn /\ heap[h].brw = heap[Outer].brw)
  /\ \A b \in BrwIds \ {heap[Outer].brw} : brw[b] = NewBrw
  /\ (/\ ret.cw \notin {Outer, NoId}
      /\ \/ ret.op = "Close"
         \/ ret.op \in {"Encode", "Decode"} /\ IsNetError(ret.err))
     => TheConn.closed

\* the action of a nested Do has called Close on its inner handle while the
\* stream was open, and the outer handle's stream is closed
C16_Witness ==
  \E t \in Threads :
     /\ pc[t] = "run" /\ Len(stack[t]) = 2
     /\ ret.op = "Close" /\ ret.cw = stack[t][2].inner /\ ~ret.afterClose
     /\ conn[heap[Outer].Conn].closed

\* t is inside the action of a Do it called on handle h
DoInProgress(t, h) == \E i \in DoFrames(t) : stack[t][i].cw = h

\* C17: the mutex of a handle is held by goroutine t exactly while t is
\* inside the action of a Do it called on that handle, whatever earlier
\* actions returned; when no Do on a handle is inside its action the mutex is
\* free and a Do waiting in Lock on that handle can take it.
C17_LockHeldForTheCall ==
  \A h \in HandleIds :
     heap[h] # NoHandle =>
        /\ heap[h].doL \in {0} \cup Threads
        /\ \A t \in Threads : heap[h].doL = t <=> DoInProgress(t, h)
        /\ (\A t \in Threads : ~DoInProgress(t, h)) =>
              /\ heap[h].doL = 0
              /\ \A u \in Threads :
                    (pc[u] = "do_lock" /\ Top(u).cw = h) => ENABLED DoLock(u)

\* a Do on the outer handle has returned its action's error, and a goroutine
\* is inside the action of a later Do on the outer handle
C17_Witness ==
  \E u \in Threads :
     /\ ret.op = "Do" /\ ret.cw = Outer /\ ret.err # "nil"
     /\ pc[u] = "run" /\ Len(stack[u]) = 1
     /\ heap[Outer].doL = u

\* a step of Do itself: the call reaching Lock, Lock returning and Run being
\* entered, or Run returning and Do returning after it
DoStep ==
  \E t \in Threads :
     \/ pc[t] # "do_lock" /\ pc'[t] = "do_lock"
     \/ pc[t] = "do_lock" /\ pc'[t] = "run"
     \/ pc[t] = "run" /\ Len(stack'[t]) < Len(stack[t])

\* C18: no step of Do changes the stream, its open/closed state included,
\* also when the action returns a net.Error of its own; when a Do has
\* returned a net.Error and no Close was called and no Encode or Decode met a
\* net.Error, the stream is open.
C18_DoNeverCloses ==
  /\ [][DoStep => (conn' = conn /\ brw' = brw /\ seen' = seen)]_vars
  /\ []((ret.op = "Do" /\ IsNetError(ret.err) /\ seen \cap {"explicit", "fault"} = {})
           => ~TheConn.closed)

\* a Do whose action returned a net.Error it did not get from the handle has
\* returned, and the stream is open
C18_Witness ==
  /\ ret.op = "Do" /\ ret.cw = Outer /\ ret.err = "netFault"
  /\ seen = {}
  /\ ~TheConn.closed
  /\ \A t \in Threads : stack[t] = <<>>

\* some Do has been called and has not returned
DoPending ==
  \E t \in Threads : \E i \in 1..Len(stack[t]) : stack[t][i].op = "Do"

\* C19: with a fair mutex and action bodies that end, whenever a Do has been
\* called and has not returned, on the outer handle or by an action on its
\* inner handle, some goroutine inside a call can take a step, and a time
\* comes when every Do has returned: no goroutine stays in Lock for ever.
C19_EveryDoReturns ==
  /\ [](DoPending => \E t \in Threads : ENABLED Progress(t))
  /\ (DoPending ~> ~DoPending)

\* an action has called Do on its inner handle and is in Lock while another
\* goroutine is in Lock on the outer handle
C19_Witness ==
  \E t, u \in Threads :
     /\ t # u
     /\ NestedDoPending(t)
     /\ pc[u] = "do_lock" /\ Len(stack[u]) = 1 /\ Top(u).cw = Outer

\* a Read or a Write reached the net.Conn in this step
StreamIO ==
  \E c \in StreamIds : conn'[c].nRead > conn[c].nRead \/ conn'[c].nWrite > conn[c].nWrite

\* C20: while a Do on the outer handle is in flight a goroutine outside every
\* call can call Close on the outer handle; a Close on a handle leaves the
\* stream closed in that very step and changes no mutex; and every step in
\* which a Read or Write reaches the closed stream is one of an Encode or
\* Decode that returns the net.Error of a closed stream.
C20_CloseNotSerialized ==
  /\ [](\A u \in Threads :
          (DoInFlight /\ pc[u] = "idle" /\ ops < MaxOps) => ENABLED Close(u))
  /\ [][ExplicitCloseStep => (TheConn'.closed /\ heap' = heap /\ stack' = stack)]_vars
  /\ [][(TheConn.closed /\ StreamIO) =>
          (ret'.op \in {"Encode", "Decode"} /\ ret'.err = "netClosed"
           /\ ret'.io = "netClosed")]_vars

\* Close was called on the outer handle while a Do on it was in flight, and an
\* Encode or Decode the action of that Do then made on its inner handle has
\* returned the net.Error of a closed stream; the Do is still in its action
C20_Witness ==
  \E t \in Threads :
     /\ "midDo" \in seen
     /\ pc[t] = "run" /\ Len(stack[t]) = 1 /\ ~stack[t][1].afterClose
     /\ heap[Outer].doL = t
     /\ ret.op \in {"Encode", "Decode"} /\ ret.cw = stack[t][1].inner
     /\ ret.afterClose /\ ret.err = "netClosed"

====
